---- MODULE Spec2Model ----
(***************************************************************************)
(* A model of the FASTQ reader of src/fastq_reader.py (class FastqReader): *)
(* the record store filled by read(), the single-record accessors and the  *)
(* three statistics views; and of the file loading of src/fastq_gui.py     *)
(* (class FastqGUI), which owns one reader.                                *)
(*                                                                         *)
(* Characters are modelled by their code points (ord), a string by the     *)
(* sequence of its code points, a dict by the sequence of its <<key,       *)
(* value>> pairs in insertion order (Python dicts keep insertion order;    *)
(* assigning to an existing key keeps the key's position).                 *)
(***************************************************************************)
EXTENDS Integers, Sequences, FiniteSets, TLC

VARIABLES
    pc,                 \* "idle" | "reading" | "read_done": position inside read()
    has_attrs,          \* TRUE once read() has assigned the four attributes
    seq_dict,           \* self.seq_dict
    seq_quality_dict,   \* self.seq_quality_dict
    total_sequences,    \* self.total_sequences
    total_length,       \* self.total_length
    consumed,           \* the raw lines the running read() has taken from the file
    eof,                \* TRUE once a readline() of the running read() hit end of file
    last,               \* the outcome of the last completed call
    discarded,          \* history: the number of records the last read() that
                        \* failed to open its file found in the store
    file_path,          \* self.file_path of the reader
    gui                 \* FastqGUI: stack (the handlers that have begun and
                        \* not returned), reader (self.reader is not None),
                        \* current_file (self.current_file), status (status_var)

vars == <<pc, has_attrs, seq_dict, seq_quality_dict, total_sequences,
          total_length, consumed, eof, last, discarded, file_path, gui>>

store == <<seq_dict, seq_quality_dict, total_sequences, total_length>>

----------------------------------------------------------------------------
(* Bounds of the model *)

\* the longest file read, in lines
MaxLines == 12

\* the largest sample_size passed to a sampled view
MaxSampleSize == 3

\* the most handlers of the GUI running inside one another
MaxDepth == 2

----------------------------------------------------------------------------
(* Strings *)

\* str.isspace() code points below 256
Whitespace == {9, 10, 11, 12, 13, 28, 29, 30, 31, 32, 133, 160}

RECURSIVE LStrip(_)
LStrip(s) ==
    IF s # <<>> /\ Head(s) \in Whitespace THEN LStrip(Tail(s)) ELSE s

RECURSIVE RStrip(_)
RStrip(s) ==
    IF s # <<>> /\ s[Len(s)] \in Whitespace
    THEN RStrip(SubSeq(s, 1, Len(s) - 1))
    ELSE s

\* str.strip()
Strip(s) == RStrip(LStrip(s))

RECURSIVE SumSeq(_)
SumSeq(s) == IF s = <<>> THEN 0 ELSE Head(s) + SumSeq(Tail(s))

RECURSIVE MaxSeq(_)
\* max() of a non-empty sequence of integers
MaxSeq(s) ==
    IF Len(s) = 1 THEN s[1]
    ELSE LET m == MaxSeq(Tail(s)) IN IF Head(s) >= m THEN Head(s) ELSE m

RECURSIVE MinSeq(_)
\* min() of a non-empty sequence of integers
MinSeq(s) ==
    IF Len(s) = 1 THEN s[1]
    ELSE LET m == MinSeq(Tail(s)) IN IF Head(s) <= m THEN Head(s) ELSE m

----------------------------------------------------------------------------
(* Dicts: sequences of <<key, value>> pairs in insertion order *)

Keys(d) == {d[i][1] : i \in 1..Len(d)}

HasKey(d, k) == k \in Keys(d)

\* d[k], for a key of d
Get(d, k) == d[CHOOSE i \in 1..Len(d) : d[i][1] = k][2]

\* d[k] = v
Put(d, k, v) ==
    IF HasKey(d, k)
    THEN [i \in 1..Len(d) |-> IF d[i][1] = k THEN <<k, v>> ELSE d[i]]
    ELSE Append(d, <<k, v>>)

\* list(d.values())
Values(d) == [i \in 1..Len(d) |-> d[i][2]]

\* [len(v) for v in d.values()]
Lengths(d) == [i \in 1..Len(d) |-> Len(d[i][2])]

----------------------------------------------------------------------------
(* The input file, as the lines readline() returns before strip() *)

\* "@a", "@b", "@c" and a line holding one space
HeaderLines == {<<64, 97>>, <<64, 98>>, <<64, 99>>, <<32>>}

\* the number of positions the plot of the content view shows
DisplayedPositions == 150

\* a sequence one symbol longer than the plot shows: A at every position but
\* the last two, which hold N and G
LongSequence ==
    [i \in 1..(DisplayedPositions + 1) |->
        IF i = DisplayedPositions THEN 78
        ELSE IF i = DisplayedPositions + 1 THEN 71 ELSE 65]

\* "AN", "CCG " (with a trailing space), "a"
SequenceLines == {<<65, 78>>, <<67, 67, 71, 32>>, <<97>>}

\* "+"
SeparatorLines == {<<43>>}

\* the empty line, "I5#", "!" followed by U+00E9
QualityLines == {<<>>, <<73, 53, 35>>, <<33, 233>>}

\* a file of long reads: its headers are "@a" and "@b", its sequences the long
\* sequence and "AN", its quality lines "I5#"
LongFile == "long.fq"

\* the lines a file can hold, by the path it is read from
HeaderLinesOf(path) ==
    IF path = LongFile THEN {<<64, 97>>, <<64, 98>>} ELSE HeaderLines

SequenceLinesOf(path) ==
    IF path = LongFile THEN {LongSequence, <<65, 78>>} ELSE SequenceLines

QualityLinesOf(path) ==
    IF path = LongFile THEN {<<73, 53, 35>>} ELSE QualityLines

\* the ids the accessors are called with: "a", "b", "c"
QueryIds == {<<97>>, <<98>>, <<99>>}

\* readline() at end of file returns ""
EofRead == [eof |-> TRUE, text |-> <<>>]

\* what one file.readline() can return, after the lines c, with e set once the
\* end of the file was reached
Readline(options, c, e) ==
    IF e \/ Len(c) >= MaxLines
    THEN {EofRead}
    ELSE {EofRead} \cup {[eof |-> FALSE, text |-> t] : t \in options}

\* the lines taken from the file after one more readline()
Took(c, r) == IF r.eof THEN c ELSE Append(c, r.text)

----------------------------------------------------------------------------
(* SequenceReader.validate_sequence: the base class is not part of the      *)
(* sources; the default predicate is the one the specification describes.  *)

\* A, C, G, T, N
Nucleotides == {65, 67, 71, 84, 78}

validate_sequence(sequence) ==
    /\ sequence # <<>>
    /\ \A i \in 1..Len(sequence) : sequence[i] \in Nucleotides

----------------------------------------------------------------------------
(* FastqReader.read *)

\* seq_id = header[1:]
SeqId(header) == SubSeq(header, 2, Len(header))

\* if self.validate_sequence(sequence): self.seq_dict[seq_id] = sequence
StoreSequence_Unvalidated(d, header, sequence) == Put(d, SeqId(header), sequence)

StoreSequence(d, header, sequence) ==
    IF validate_sequence(sequence) THEN Put(d, SeqId(header), sequence) ELSE d

\* a store that keeps the quality string an id already has
StoreQuality_KeepFirst(d, header, sequence, quality) ==
    IF validate_sequence(sequence) /\ ~HasKey(d, SeqId(header))
    THEN Put(d, SeqId(header), quality)
    ELSE d

\* if self.validate_sequence(sequence): self.seq_quality_dict[seq_id] = quality
StoreQuality(d, header, sequence, quality) ==
    IF validate_sequence(sequence) THEN Put(d, SeqId(header), quality) ELSE d

\* if self.validate_sequence(sequence): self.total_sequences += 1
CountSequence(n, sequence) ==
    IF validate_sequence(sequence) THEN n + 1 ELSE n

\* if self.validate_sequence(sequence): self.total_length += len(sequence)
AddLength(n, sequence) ==
    IF validate_sequence(sequence) THEN n + Len(sequence) ELSE n

NoCall == [op |-> "none", arg |-> 0, outcome |-> "ok", value |-> 0, work |-> <<>>]

\* the paths a file can be loaded from: one that opens, one that does not
Paths == {"a.fq", "missing.fq"}

Openable == {"a.fq"}

\* FastqGUI.__init__: self.reader = None, self.current_file = None
NoGui == [stack |-> <<>>, reader |-> FALSE, current_file |-> "None",
          status |-> "Ready"]

Result(op, arg, outcome, value, work) ==
    [op |-> op, arg |-> arg, outcome |-> outcome, value |-> value, work |-> work]

Init ==
    /\ pc = "idle"
    /\ has_attrs = FALSE
    /\ seq_dict = <<>>
    /\ seq_quality_dict = <<>>
    /\ total_sequences = 0
    /\ total_length = 0
    /\ consumed = <<>>
    /\ eof = FALSE
    /\ last = NoCall
    /\ discarded = 0
    /\ file_path = "a.fq"
    /\ gui = NoGui

\* a read() that opens the file first and resets the attributes only once it
\* is open
ReadBegin_OpenFirst(exists) ==
    /\ pc = "idle"
    /\ consumed' = <<>>
    /\ eof' = FALSE
    /\ discarded' = IF exists THEN 0 ELSE Len(seq_dict)
    /\ UNCHANGED <<file_path, gui>>
    /\ IF exists
       THEN /\ has_attrs' = TRUE
            /\ total_sequences' = 0
            /\ total_length' = 0
            /\ seq_dict' = <<>>
            /\ seq_quality_dict' = <<>>
            /\ pc' = "reading"
            /\ last' = NoCall
       ELSE /\ pc' = "idle"
            /\ last' = Result("read", 0, "FileNotFoundError", 0, <<>>)
            /\ UNCHANGED <<has_attrs, seq_dict, seq_quality_dict,
                           total_sequences, total_length>>

\* read() up to and including open(): the four attributes are reset, then the
\* file is opened; opening a missing file raises FileNotFoundError
ReadBegin(exists) ==
    /\ pc = "idle"
    /\ has_attrs' = TRUE
    /\ total_sequences' = 0
    /\ total_length' = 0
    /\ seq_dict' = <<>>
    /\ seq_quality_dict' = <<>>
    /\ consumed' = <<>>
    /\ eof' = FALSE
    /\ discarded' = IF exists THEN 0 ELSE Len(seq_dict)
    /\ UNCHANGED <<file_path, gui>>
    /\ IF exists
       THEN /\ pc' = "reading"
            /\ last' = NoCall
       ELSE /\ pc' = "idle"
            /\ last' = Result("read", 0, "FileNotFoundError", 0, <<>>)

\* one iteration of the while loop that finds a non-empty header: the three
\* further lines are read and the record is stored if its sequence is valid
ReadRecord ==
    /\ pc = "reading"
    /\ \E r1 \in Readline(HeaderLinesOf(file_path), consumed, eof) :
         LET header == Strip(r1.text)
             c1 == Took(consumed, r1)
             e1 == eof \/ r1.eof
         IN /\ header # <<>>
            /\ \E r2 \in Readline(SequenceLinesOf(file_path), c1, e1) :
               \E r3 \in Readline(SeparatorLines, Took(c1, r2), e1 \/ r2.eof) :
               \E r4 \in Readline(QualityLinesOf(file_path), Took(Took(c1, r2), r3),
                                  e1 \/ r2.eof \/ r3.eof) :
                 LET sequence == Strip(r2.text)
                     quality == Strip(r4.text)
                 IN /\ consumed' = Took(Took(Took(c1, r2), r3), r4)
                    /\ eof' = (e1 \/ r2.eof \/ r3.eof \/ r4.eof)
                    /\ seq_dict' = StoreSequence(seq_dict, header, sequence)
                    /\ seq_quality_dict' =
                         StoreQuality(seq_quality_dict, header, sequence, quality)
                    /\ total_sequences' = CountSequence(total_sequences, sequence)
                    /\ total_length' = AddLength(total_length, sequence)
    /\ UNCHANGED <<pc, has_attrs, last>>
    /\ UNCHANGED <<discarded, file_path, gui>>

\* a loop that breaks only at the end of the file and reads on after a blank
\* header line
ReadBreak_OnlyAtEof ==
    /\ pc = "reading"
    /\ \E r1 \in Readline(HeaderLinesOf(file_path), consumed, eof) :
         /\ Strip(r1.text) = <<>>
         /\ consumed' = Took(consumed, r1)
         /\ eof' = (eof \/ r1.eof)
         /\ pc' = IF r1.eof THEN "read_done" ELSE "reading"
    /\ UNCHANGED <<has_attrs, seq_dict, seq_quality_dict, total_sequences,
                   total_length, last>>
    /\ UNCHANGED <<discarded, file_path, gui>>

\* the iteration whose header is empty after strip(): break
ReadBreak ==
    /\ pc = "reading"
    /\ \E r1 \in Readline(HeaderLinesOf(file_path), consumed, eof) :
         /\ Strip(r1.text) = <<>>
         /\ consumed' = Took(consumed, r1)
         /\ eof' = (eof \/ r1.eof)
    /\ pc' = "read_done"
    /\ UNCHANGED <<has_attrs, seq_dict, seq_quality_dict, total_sequences,
                   total_length, last>>
    /\ UNCHANGED <<discarded, file_path, gui>>

\* read() returns to its caller
ReadReturn ==
    /\ pc = "read_done"
    /\ pc' = "idle"
    /\ consumed' = <<>>
    /\ eof' = FALSE
    /\ last' = Result("read", 0, "ok", 0, <<>>)
    /\ UNCHANGED <<has_attrs, seq_dict, seq_quality_dict, total_sequences,
                   total_length>>
    /\ UNCHANGED <<discarded, file_path, gui>>

----------------------------------------------------------------------------
(* Single-record accessors.  A float is modelled by its value in hundredths *)
(* (round(x, 2) * 100), an exact integer.                                   *)

RECURSIVE Gcd(_, _)
Gcd(a, b) == IF b = 0 THEN a ELSE Gcd(b, a % b)

\* 2^j modulo c
RECURSIVE Pow2Mod(_, _)
Pow2Mod(j, c) == IF j = 0 THEN 1 % c ELSE (2 * Pow2Mod(j - 1, c)) % c

\* the exponent of the double num / den: the e with 2^e <= num / den < 2^(e+1),
\* for num > 0
RECURSIVE ExponentUp(_, _)
ExponentUp(num, den) ==
    IF den <= num \div 2 THEN 1 + ExponentUp(num, 2 * den) ELSE 0

RECURSIVE ExponentDown(_, _)
ExponentDown(num, den) ==
    IF num >= den THEN 0 ELSE ExponentDown(2 * num, den) - 1

Exponent(num, den) ==
    IF num >= den THEN ExponentUp(num, den) ELSE ExponentDown(num, den)

\* whether the double num / den lies above the quotient, for a quotient
\* p / (8 * c) in lowest terms with c = 5 or 25, which no double equals: the
\* quotient is p * 2^(49 - e) / c units of the last of its 53 bits, and the
\* division rounds to the nearest unit
DoubleIsAbove(num, den) ==
    LET p == num \div Gcd(num, den)
        c == (den \div Gcd(num, den)) \div 8
        r == ((p % c) * Pow2Mod(49 - Exponent(num, den), c)) % c
    IN 2 * r > c

\* round(num / den, 2) in hundredths, num >= 0, den > 0: the hundredth nearest
\* to the double num / den.  When the quotient is halfway between two
\* hundredths its denominator in lowest terms is 8, 40 or 200: with 8 the
\* double is the quotient and round() takes the even hundredth, otherwise the
\* double lies above or below it and round() follows the double.
Round2(num, den) ==
    LET h == (100 * num) \div den
        rem == (100 * num) % den
    IN IF 2 * rem < den THEN h
       ELSE IF 2 * rem > den THEN h + 1
       ELSE IF den \div Gcd(num, den) = 8
       THEN IF h % 2 = 0 THEN h ELSE h + 1
       ELSE IF DoubleIsAbove(num, den) THEN h + 1 ELSE h

\* a lookup that falls back to "" for an unknown id, as dict.get would
get_sequence_Default(seq_id) ==
    IF ~has_attrs THEN Result("get_sequence", seq_id, "AttributeError", 0, <<>>)
    ELSE IF ~HasKey(seq_dict, seq_id)
    THEN Result("get_sequence", seq_id, "ok", <<>>, <<>>)
    ELSE Result("get_sequence", seq_id, "ok", Get(seq_dict, seq_id), <<>>)

\* get_sequence: self.seq_dict[seq_id]
get_sequence(seq_id) ==
    IF ~has_attrs THEN Result("get_sequence", seq_id, "AttributeError", 0, <<>>)
    ELSE IF ~HasKey(seq_dict, seq_id)
    THEN Result("get_sequence", seq_id, "KeyError", 0, <<>>)
    ELSE Result("get_sequence", seq_id, "ok", Get(seq_dict, seq_id), <<>>)

\* get_sequence_length: len(self.seq_dict[seq_id])
get_sequence_length(seq_id) ==
    IF ~has_attrs THEN Result("get_sequence_length", seq_id, "AttributeError", 0, <<>>)
    ELSE IF ~HasKey(seq_dict, seq_id)
    THEN Result("get_sequence_length", seq_id, "KeyError", 0, <<>>)
    ELSE Result("get_sequence_length", seq_id, "ok", Len(Get(seq_dict, seq_id)), <<>>)

\* count_sequences: len(self.seq_dict)
count_sequences ==
    IF ~has_attrs THEN Result("count_sequences", 0, "AttributeError", 0, <<>>)
    ELSE Result("count_sequences", 0, "ok", Len(seq_dict), <<>>)

\* get_average_sequence_len
get_average_sequence_len ==
    IF ~has_attrs THEN Result("get_average_sequence_len", 0, "AttributeError", 0, <<>>)
    ELSE IF total_sequences = 0
    THEN Result("get_average_sequence_len", 0, "ok", 0, <<>>)
    ELSE Result("get_average_sequence_len", 0, "ok",
                Round2(total_length, total_sequences), <<>>)

\* ord(char.encode(encoding="ascii")): encoding a character above 127 raises
IsAscii(char) == char < 128

\* the Phred+64 offset of older encodings
Phred_Offset64(char) == char - 64

\* ord(char) - 33
Phred(char) == char - 33

\* the list get_quality_scores builds from a quality string of ASCII characters
Decode(quality) == [i \in 1..Len(quality) |-> Phred(quality[i])]

\* get_quality_scores
get_quality_scores(seq_id) ==
    IF ~has_attrs THEN Result("get_quality_scores", seq_id, "AttributeError", 0, <<>>)
    ELSE IF ~HasKey(seq_quality_dict, seq_id)
    THEN Result("get_quality_scores", seq_id, "KeyError", 0, <<>>)
    ELSE LET q == Get(seq_quality_dict, seq_id)
         IN IF \E i \in 1..Len(q) : ~IsAscii(q[i])
            THEN Result("get_quality_scores", seq_id, "UnicodeEncodeError", 0, <<>>)
            ELSE Result("get_quality_scores", seq_id, "ok", Decode(q), <<>>)

\* the mean cut to two decimals instead of rounded
AverageOf_Truncated(quality) ==
    IF quality = <<>> THEN 0 ELSE (100 * SumSeq(quality)) \div Len(quality)

\* the value get_average_quality returns for the list get_quality_scores gave
AverageOf(quality) ==
    IF quality = <<>> THEN 0 ELSE Round2(SumSeq(quality), Len(quality))

\* get_average_quality
get_average_quality(seq_id) ==
    LET r == get_quality_scores(seq_id)
    IN IF r.outcome # "ok"
       THEN Result("get_average_quality", seq_id, r.outcome, 0, <<>>)
       ELSE Result("get_average_quality", seq_id, "ok", AverageOf(r.value), <<>>)

\* a call that brings total_sequences back to the number of stored records
Call_Recount(result) ==
    /\ pc = "idle"
    /\ last' = result
    /\ total_sequences' = Len(seq_dict)
    /\ UNCHANGED <<pc, has_attrs, seq_dict, seq_quality_dict, total_length,
                   consumed, eof>>
    /\ UNCHANGED <<discarded, file_path, gui>>

\* the accessors are read-only calls made between two read()s
Call(result) ==
    /\ pc = "idle"
    /\ last' = result
    /\ UNCHANGED <<pc, has_attrs, seq_dict, seq_quality_dict, total_sequences,
                   total_length, consumed, eof>>
    /\ UNCHANGED <<discarded, file_path, gui>>

GetSequence(seq_id) == Call(get_sequence(seq_id))

GetSequenceLength(seq_id) == Call(get_sequence_length(seq_id))

GetQualityScores(seq_id) == Call(get_quality_scores(seq_id))

GetAverageQuality(seq_id) == Call(get_average_quality(seq_id))

CountSequences == Call(count_sequences)

GetAverageSequenceLen == Call(get_average_sequence_len)

----------------------------------------------------------------------------
(* Sampling *)

\* k elements drawn with replacement, as random.choices would
Samples_WithReplacement(population, k) ==
    {[i \in 1..k |-> population[f[i]]] : f \in [1..k -> 1..Len(population)]}

\* random.sample(population, k), 0 <= k <= len(population): k elements taken
\* at k different indices, in any order
Samples(population, k) ==
    {[i \in 1..k |-> population[f[i]]] :
        f \in {g \in [1..k -> 1..Len(population)] :
                 \A i, j \in 1..k : i # j => g[i] # g[j]}}

\* the list a sampled view works on
WorkingSets(values, sample_size) ==
    IF Len(values) > sample_size
    THEN Samples(values, sample_size)
    ELSE {values}

----------------------------------------------------------------------------
(* per_base_sequence_quality.  Percentiles are exact rationals, in          *)
(* hundredths of a quality unit.                                           *)

\* values collected with a 0 for every quality string that ends before pos
PosQualities_Padded(qualities, pos) ==
    [i \in 1..Len(qualities) |->
        IF pos < Len(qualities[i]) THEN Phred(qualities[i][pos + 1]) ELSE 0]

\* pos_qualities at the 0-based position pos
PosQualities(qualities, pos) ==
    LET having == SelectSeq(qualities, LAMBDA q : pos < Len(q))
    IN [i \in 1..Len(having) |-> Phred(having[i][pos + 1])]

\* np.percentile without the sort: interpolation over the values as collected
Percentile_Unsorted(values, p) ==
    LET rank == (Len(values) - 1) * p
        lo == rank \div 100
        frac == rank % 100
    IN IF frac = 0
       THEN 100 * values[lo + 1]
       ELSE 100 * values[lo + 1] + frac * (values[lo + 2] - values[lo + 1])

\* np.percentile(values, p), linear interpolation, in hundredths
Percentile(values, p) ==
    LET v == SortSeq(values, LAMBDA a, b : a < b)
        rank == (Len(v) - 1) * p
        lo == rank \div 100
        frac == rank % 100
    IN IF frac = 0
       THEN 100 * v[lo + 1]
       ELSE 100 * v[lo + 1] + frac * (v[lo + 2] - v[lo + 1])

\* an entry that reports the 0-based position
QualityRow_ZeroBased(qualities, pos) ==
    LET values == PosQualities(qualities, pos)
    IN [Position |-> pos,
        Median |-> Percentile(values, 50),
        Q25 |-> Percentile(values, 25),
        Q75 |-> Percentile(values, 75),
        Q10 |-> Percentile(values, 10),
        Q90 |-> Percentile(values, 90)]

\* the entry appended to quality_stats for position pos
QualityRow(qualities, pos) ==
    LET values == PosQualities(qualities, pos)
    IN [Position |-> pos + 1,
        Median |-> Percentile(values, 50),
        Q25 |-> Percentile(values, 25),
        Q75 |-> Percentile(values, 75),
        Q10 |-> Percentile(values, 10),
        Q90 |-> Percentile(values, 90)]

\* the length of the first element only
MaxLen_First(xs) == Len(xs[1])

\* max(len(x) for x in xs), xs not empty
MaxLen(xs) == MaxSeq([i \in 1..Len(xs) |-> Len(xs[i])])

\* quality_stats
QualityStats(qualities) ==
    LET positions == SelectSeq([i \in 1..MaxLen(qualities) |-> i - 1],
                               LAMBDA pos : PosQualities(qualities, pos) # <<>>)
    IN [i \in 1..Len(positions) |-> QualityRow(qualities, positions[i])]

\* per_base_sequence_quality(sample_size) on the working list qualities
per_base_sequence_quality(sample_size, qualities) ==
    IF ~has_attrs \/ seq_quality_dict = <<>>
    THEN Result("per_base_sequence_quality", sample_size, "ValueError",
                "not loaded", <<>>)
    ELSE IF qualities = <<>>
    THEN Result("per_base_sequence_quality", sample_size, "ValueError",
                "max() arg is an empty sequence", qualities)
    ELSE Result("per_base_sequence_quality", sample_size, "ok",
                QualityStats(qualities), qualities)

----------------------------------------------------------------------------
(* per_base_sequence_content.  A percentage is a double, the result of     *)
(* (base_counts[base][pos] / total_counts[pos]) * 100.  A row holds it as   *)
(* the exact ratio row[base] / row.total, with row[base] = 100 * count, and *)
(* the rounding error of the two floating-point operations,                *)
(* row.err[base] / row.total in units of 2^-47: the double is               *)
(* (row[base] + row.err[base] * 2^-47) / row.total.                         *)

\* 'ATCG'
Bases == {65, 84, 67, 71}

\* base_counts[base][pos]
BaseCount(sequences, base, pos) ==
    Len(SelectSeq(sequences, LAMBDA x : pos < Len(x) /\ x[pos + 1] = base))

\* a total that is the number of sampled sequences, whatever they hold at pos
TotalCount_AllSequences(sequences, pos) == Len(sequences)

\* total_counts[pos]
TotalCount(sequences, pos) ==
    Len(SelectSeq(sequences, LAMBDA x : pos < Len(x) /\ x[pos + 1] \in Bases))

\* the rounding error of the double (count / total) * 100, times total, in
\* units of 2^-47, for 0 <= count <= total <= 5: a third becomes
\* 33.33333333333333 and two thirds 66.66666666666666, every other ratio with
\* a denominator up to 5 gives its percentage exactly
PercentError(count, total) ==
    IF 3 * count = total \/ 3 * count = 2 * total THEN -2 * count ELSE 0

\* the row appended to content_data for position pos
ContentRow(sequences, pos) ==
    [Position |-> pos + 1,
     A |-> 100 * BaseCount(sequences, 65, pos),
     T |-> 100 * BaseCount(sequences, 84, pos),
     C |-> 100 * BaseCount(sequences, 67, pos),
     G |-> 100 * BaseCount(sequences, 71, pos),
     total |-> TotalCount(sequences, pos),
     err |-> [base \in Bases |->
                PercentError(BaseCount(sequences, base, pos),
                             TotalCount(sequences, pos))]]

\* a content_data cut to the positions the plot shows
ContentData_Displayed(sequences) ==
    LET positions == SelectSeq([i \in 1..MaxLen(sequences) |-> i - 1],
                               LAMBDA pos : /\ TotalCount(sequences, pos) > 0
                                            /\ pos < DisplayedPositions)
    IN [i \in 1..Len(positions) |-> ContentRow(sequences, positions[i])]

\* content_data
ContentData(sequences) ==
    LET positions == SelectSeq([i \in 1..MaxLen(sequences) |-> i - 1],
                               LAMBDA pos : TotalCount(sequences, pos) > 0)
    IN [i \in 1..Len(positions) |-> ContentRow(sequences, positions[i])]

\* per_base_sequence_content(sample_size) on the working list sequences
per_base_sequence_content(sample_size, sequences) ==
    IF ~has_attrs \/ seq_dict = <<>>
    THEN Result("per_base_sequence_content", sample_size, "ValueError",
                "not loaded", <<>>)
    ELSE IF sequences = <<>>
    THEN Result("per_base_sequence_content", sample_size, "ValueError",
                "max() arg is an empty sequence", sequences)
    ELSE Result("per_base_sequence_content", sample_size, "ok",
                ContentData(sequences), sequences)

----------------------------------------------------------------------------
(* sequence_length_distribution: np.histogram(lengths, bins=30).  Bin edges *)
(* are exact rationals: the range is lo2/2 .. hi2/2 and edge i is           *)
(* Edge(i) / (2 * NumBins).                                                 *)

NumBins == 30

\* twice the first edge: min(lengths), or min - 0.5 when min = max
Lo2(lengths) ==
    IF MinSeq(lengths) = MaxSeq(lengths)
    THEN 2 * MinSeq(lengths) - 1
    ELSE 2 * MinSeq(lengths)

\* twice the last edge: max(lengths), or max + 0.5 when min = max
Hi2(lengths) ==
    IF MinSeq(lengths) = MaxSeq(lengths)
    THEN 2 * MaxSeq(lengths) + 1
    ELSE 2 * MaxSeq(lengths)

\* bin_edges[i] * 2 * NumBins, i in 0..NumBins
Edge(lengths, i) == NumBins * Lo2(lengths) + i * (Hi2(lengths) - Lo2(lengths))

\* the 0-based bin of x: bins are half open, the last one is closed
BinOf(lengths, x) ==
    LET b == (2 * NumBins * x - NumBins * Lo2(lengths))
                 \div (Hi2(lengths) - Lo2(lengths))
    IN IF b >= NumBins THEN NumBins - 1 ELSE b

\* counts
Histogram(lengths) ==
    [b \in 1..NumBins |->
        Len(SelectSeq(lengths, LAMBDA x : BinOf(lengths, x) = b - 1))]

\* bin_centers * 4 * NumBins
BinCenters(lengths) ==
    [b \in 1..NumBins |-> Edge(lengths, b - 1) + Edge(lengths, b)]

\* the guard without its emptiness test: np.histogram of no data gives 30
\* empty bins over the range 0..1
sequence_length_distribution_NoEmptyCheck ==
    IF ~has_attrs
    THEN Result("sequence_length_distribution", 0, "ValueError", "not loaded", <<>>)
    ELSE IF seq_dict = <<>>
    THEN Result("sequence_length_distribution", 0, "ok",
                [counts |-> [b \in 1..NumBins |-> 0],
                 bin_centers |-> [b \in 1..NumBins |-> 2 * (2 * b - 1)]],
                <<>>)
    ELSE Result("sequence_length_distribution", 0, "ok",
                [counts |-> Histogram(Lengths(seq_dict)),
                 bin_centers |-> BinCenters(Lengths(seq_dict))],
                Lengths(seq_dict))

\* sequence_length_distribution
sequence_length_distribution ==
    IF ~has_attrs \/ seq_dict = <<>>
    THEN Result("sequence_length_distribution", 0, "ValueError", "not loaded", <<>>)
    ELSE Result("sequence_length_distribution", 0, "ok",
                [counts |-> Histogram(Lengths(seq_dict)),
                 bin_centers |-> BinCenters(Lengths(seq_dict))],
                Lengths(seq_dict))

\* a call of per_base_sequence_quality: the working list is the stored
\* quality strings, or a random sample of them
QualityView(sample_size) ==
    \E qualities \in WorkingSets(Values(seq_quality_dict), sample_size) :
        Call(per_base_sequence_quality(sample_size, qualities))

\* a call of per_base_sequence_content: the working list is the stored
\* sequences, or a random sample of them
ContentView(sample_size) ==
    \E sequences \in WorkingSets(Values(seq_dict), sample_size) :
        Call(per_base_sequence_content(sample_size, sequences))

\* a call of sequence_length_distribution
LengthView == Call(sequence_length_distribution)

----------------------------------------------------------------------------
(* FastqGUI: load_file and the three plot handlers, on the reader of the    *)
(* GUI.  A handler that calls self.root.update() runs, inside that call, the *)
(* handlers of the events that are pending; the same holds while plt.show() *)
(* waits in the event loop of an interactive backend.  gui.stack holds the  *)
(* handlers that have begun and not returned, the running one last.         *)

\* the GUI as constructed, with no reader
GuiInit ==
    /\ pc = "idle"
    /\ has_attrs = FALSE
    /\ seq_dict = <<>>
    /\ seq_quality_dict = <<>>
    /\ total_sequences = 0
    /\ total_length = 0
    /\ consumed = <<>>
    /\ eof = FALSE
    /\ last = NoCall
    /\ discarded = 0
    /\ file_path = "None"
    /\ gui = NoGui

\* a handler inside another: handler is the method, file_path its argument
\* ("" when it has none), at the call it is in
Frame(handler, path, at) == [handler |-> handler, file_path |-> path, at |-> at]

Top == gui.stack[Len(gui.stack)]

Pop == SubSeq(gui.stack, 1, Len(gui.stack) - 1)

\* the running handler moves on to the call at
TopAt(at) == [gui.stack EXCEPT ![Len(gui.stack)].at = at]

\* the event loop can run a handler: no handler is running, or the running one
\* is inside self.root.update() or plt.show()
CanHandle ==
    /\ pc = "idle"
    /\ Len(gui.stack) < MaxDepth
    /\ gui.stack # <<>> => Top.at \in {"update", "show"}

AtCall(handler, at) ==
    /\ gui.stack # <<>>
    /\ Top.handler = handler
    /\ Top.at = at

\* load_file up to self.root.update(): the status line changes, the reader
\* is still the one the GUI had
LoadFileBegin(path) ==
    /\ CanHandle
    /\ gui' = [gui EXCEPT !.status = "Loading file...",
                          !.stack = Append(gui.stack,
                                           Frame("load_file", path, "update"))]
    /\ UNCHANGED <<pc, has_attrs, seq_dict, seq_quality_dict, total_sequences,
                   total_length, consumed, eof, last, discarded, file_path>>

\* self.root.update() returned; self.reader = FastqReader(file_path): the GUI
\* holds a new reader, which has the path and none of the four attributes yet
LoadFileNewReader ==
    /\ AtCall("load_file", "update")
    /\ pc = "idle"
    /\ gui' = [gui EXCEPT !.reader = TRUE, !.stack = TopAt("read")]
    /\ file_path' = Top.file_path
    /\ has_attrs' = FALSE
    /\ seq_dict' = <<>>
    /\ seq_quality_dict' = <<>>
    /\ total_sequences' = 0
    /\ total_length' = 0
    /\ consumed' = <<>>
    /\ eof' = FALSE
    /\ last' = NoCall
    /\ discarded' = 0
    /\ UNCHANGED pc

\* self.reader.read() begins: the file of the path opens or does not
LoadFileRead ==
    /\ AtCall("load_file", "read")
    /\ last = NoCall
    /\ ReadBegin(file_path \in Openable)

\* list(self.reader.seq_dict.keys())[:3]
sample_ids ==
    [i \in 1..(IF Len(seq_dict) < 3 THEN Len(seq_dict) ELSE 3) |-> seq_dict[i][1]]

\* show_statistics followed by the count_sequences() of the status line: the
\* call that raised, if one did, and the last call made otherwise
show_statistics ==
    LET raising == {i \in 1..Len(sample_ids) :
                       get_average_quality(sample_ids[i]).outcome # "ok"}
    IN IF raising # {}
       THEN get_average_quality(
                sample_ids[CHOOSE i \in raising : \A j \in raising : i <= j])
       ELSE count_sequences

\* load_file after read() returned: current_file is set, the statistics are
\* shown; an exception raised on the way is reported as a failed load
LoadFileFinish ==
    /\ AtCall("load_file", "read")
    /\ pc = "idle"
    /\ last = Result("read", 0, "ok", 0, <<>>)
    /\ last' = show_statistics
    /\ gui' = [gui EXCEPT !.stack = Pop, !.current_file = Top.file_path,
                          !.status = IF show_statistics.outcome = "ok"
                                     THEN "File loaded successfully"
                                     ELSE "Error loading file"]
    /\ UNCHANGED <<pc, has_attrs, seq_dict, seq_quality_dict, total_sequences,
                   total_length, consumed, eof, discarded, file_path>>

\* load_file when read() raised: the except branch reports the error
LoadFileFailed ==
    /\ AtCall("load_file", "read")
    /\ pc = "idle"
    /\ last = Result("read", 0, "FileNotFoundError", 0, <<>>)
    /\ gui' = [gui EXCEPT !.stack = Pop, !.status = "Error loading file"]
    /\ UNCHANGED <<pc, has_attrs, seq_dict, seq_quality_dict, total_sequences,
                   total_length, consumed, eof, last, discarded, file_path>>

\* a plot handler up to self.root.update(): past validate_reader, the status
\* line says what is being generated
PlotBegin(handler, generating) ==
    /\ CanHandle
    /\ gui.reader
    /\ gui' = [gui EXCEPT !.status = generating,
                          !.stack = Append(gui.stack,
                                           Frame(handler, "", "update"))]
    /\ UNCHANGED <<pc, has_attrs, seq_dict, seq_quality_dict, total_sequences,
                   total_length, consumed, eof, last, discarded, file_path>>

\* whether a view that gave result went as far as its plt.show()
Shown(result) ==
    /\ result.outcome = "ok"
    /\ ~(result.op = "per_base_sequence_quality" /\ result.value = <<>>)

\* self.root.update() returned; the view is called on the reader the GUI
\* holds by now, with its default sample_size, larger than any store of the
\* model.  It raises, or returns without a plot, or is in plt.show()
PlotCall(handler, result, done) ==
    /\ AtCall(handler, "update")
    /\ pc = "idle"
    /\ last' = result
    /\ gui' = IF Shown(result)
              THEN [gui EXCEPT !.stack = TopAt("show")]
              ELSE [gui EXCEPT !.stack = Pop,
                               !.status = IF result.outcome = "ok"
                                          THEN done
                                          ELSE "Error generating plot"]
    /\ UNCHANGED <<pc, has_attrs, seq_dict, seq_quality_dict, total_sequences,
                   total_length, consumed, eof, discarded, file_path>>

\* plt.show() returned: the figure is put on the canvas and reported
PlotShown(handler, done) ==
    /\ AtCall(handler, "show")
    /\ pc = "idle"
    /\ gui' = [gui EXCEPT !.stack = Pop, !.status = done]
    /\ UNCHANGED <<pc, has_attrs, seq_dict, seq_quality_dict, total_sequences,
                   total_length, consumed, eof, last, discarded, file_path>>

DefaultSampleSize == 5000

show_quality_plot ==
    \/ PlotBegin("show_quality_plot", "Generating quality plot...")
    \/ PlotCall("show_quality_plot",
                per_base_sequence_quality(DefaultSampleSize,
                                          Values(seq_quality_dict)),
                "Quality plot generated")
    \/ PlotShown("show_quality_plot", "Quality plot generated")

show_content_plot ==
    \/ PlotBegin("show_content_plot", "Generating sequence content plot...")
    \/ PlotCall("show_content_plot",
                per_base_sequence_content(DefaultSampleSize, Values(seq_dict)),
                "Sequence content plot generated")
    \/ PlotShown("show_content_plot", "Sequence content plot generated")

show_length_plot ==
    \/ PlotBegin("show_length_plot", "Generating length distribution plot...")
    \/ PlotCall("show_length_plot", sequence_length_distribution,
                "Length distribution plot generated")
    \/ PlotShown("show_length_plot", "Length distribution plot generated")

GuiNext ==
    \/ \E path \in Paths : LoadFileBegin(path)
    \/ LoadFileNewReader
    \/ LoadFileRead
    \/ ReadRecord
    \/ ReadBreak
    \/ ReadReturn
    \/ LoadFileFinish
    \/ LoadFileFailed
    \/ show_quality_plot
    \/ show_content_plot
    \/ show_length_plot

GuiSpec == GuiInit /\ [][GuiNext]_vars

----------------------------------------------------------------------------
(* FastqReader used directly *)

Next ==
    \/ \E exists \in BOOLEAN : ReadBegin(exists)
    \/ ReadRecord
    \/ ReadBreak
    \/ ReadReturn
    \/ \E seq_id \in QueryIds : GetSequence(seq_id)
    \/ \E seq_id \in QueryIds : GetSequenceLength(seq_id)
    \/ \E seq_id \in QueryIds : GetQualityScores(seq_id)
    \/ \E seq_id \in QueryIds : GetAverageQuality(seq_id)
    \/ CountSequences
    \/ GetAverageSequenceLen
    \/ \E sample_size \in 0..MaxSampleSize : QualityView(sample_size)
    \/ \E sample_size \in 0..MaxSampleSize : ContentView(sample_size)
    \/ LengthView

Spec == Init /\ [][Next]_vars

\* a reader constructed on the file of long reads
LongInit ==
    /\ pc = "idle"
    /\ has_attrs = FALSE
    /\ seq_dict = <<>>
    /\ seq_quality_dict = <<>>
    /\ total_sequences = 0
    /\ total_length = 0
    /\ consumed = <<>>
    /\ eof = FALSE
    /\ last = NoCall
    /\ discarded = 0
    /\ file_path = LongFile
    /\ gui = NoGui

LongSpec == LongInit /\ [][Next]_vars

\* read() is one synchronous call: once it has begun, its next loop iteration
\* and its return are always executed
FairSpec ==
    /\ Init /\ [][Next]_vars
    /\ WF_vars(ReadRecord \/ ReadBreak)
    /\ WF_vars(ReadReturn)

----------------------------------------------------------------------------
(* Properties of read() *)

\* the sum of the lengths of the stored sequences
StoredLength == SumSeq(Lengths(seq_dict))

\* the running read() took only complete 4-line groups and stopped at the end
\* of the file
WellFormedInput == eof /\ Len(consumed) % 4 = 0

\* the running read() reached the end of the file inside a 4-line group
PartialTrailingGroup == eof /\ Len(consumed) % 4 # 0

\* the number of complete groups among the lines c whose sequence is valid
ValidGroups(c) ==
    Cardinality({g \in 0..(Len(c) \div 4 - 1) :
                    validate_sequence(Strip(c[4 * g + 2]))})

\* C1: after every read() total_sequences is the number of entries of the
\* mapping and total_length is the sum of the lengths of the stored sequences.
C1_TotalsMatchStore ==
    (pc = "read_done") =>
        /\ total_sequences = Len(seq_dict)
        /\ total_length = StoredLength

\* C2: after read() of a well-formed input with N valid records, count() is N
\* and total_length is the sum of the stored sequence lengths.
C2_CountIsValidRecords ==
    (pc = "read_done" /\ WellFormedInput) =>
        /\ count_sequences.value = ValidGroups(consumed)
        /\ total_length = StoredLength

\* C3: read() of an input that ends inside a record group fails with a format
\* error: it never completes normally on such an input.
C3_PartialGroupRejected ==
    PartialTrailingGroup => pc # "read_done"

\* the lines a step of read() takes from the file
NewLines == SubSeq(consumed', Len(consumed) + 1, Len(consumed'))

\* the header and the sequence of the group a step of read() takes ("" for a
\* line past the end of the file)
NewHeader == IF Len(NewLines) >= 1 THEN Strip(NewLines[1]) ELSE <<>>
NewSequence == IF Len(NewLines) >= 2 THEN Strip(NewLines[2]) ELSE <<>>

\* C4: a record group whose sequence fails validation is skipped without
\* error: both mappings and both totals stay as they are, nothing is raised and
\* the loop goes on to the next group.
C4_InvalidRecordSkipped ==
    [][(pc = "reading" /\ NewHeader # <<>> /\ ~validate_sequence(NewSequence)) =>
          /\ seq_dict' = seq_dict
          /\ seq_quality_dict' = seq_quality_dict
          /\ total_sequences' = total_sequences
          /\ total_length' = total_length
          /\ last' = last
          /\ pc' = "reading"]_vars

\* a group with an invalid sequence was skipped and the next group was stored
C4_Witness ==
    /\ pc = "reading"
    /\ Len(consumed) = 8
    /\ ~validate_sequence(Strip(consumed[2]))
    /\ validate_sequence(Strip(consumed[6]))
    /\ Keys(seq_dict) = {SeqId(Strip(consumed[5]))}
    /\ total_sequences = 1

----------------------------------------------------------------------------
(* Properties of the accessors and the statistics views *)

StatisticsOps == {"per_base_sequence_quality", "per_base_sequence_content",
                  "sequence_length_distribution"}

LookupOps == {"get_sequence", "get_sequence_length", "get_quality_scores",
              "get_average_quality"}

StoreEmpty == ~has_attrs \/ seq_dict = <<>>

\* C5: each of the three statistics views fails with the no-data error when
\* the store is empty (before any read(), or after a read() that stored
\* nothing), and count() is 0 after a read() that stored nothing.
C5_NoDataError ==
    /\ (pc = "idle" /\ last.op \in StatisticsOps /\ StoreEmpty) =>
          (last.outcome = "ValueError" /\ last.value = "not loaded")
    /\ (pc = "idle" /\ last.op = "count_sequences" /\ has_attrs /\ seq_dict = <<>>) =>
          (last.outcome = "ok" /\ last.value = 0)

\* the length view was called after a read() that stored nothing, and failed
C5_Witness ==
    /\ pc = "idle"
    /\ has_attrs
    /\ seq_dict = <<>>
    /\ last.op = "sequence_length_distribution"
    /\ last.outcome = "ValueError"

\* C6: an accessor called with an id that is not a key of the store fails with
\* the key error and leaves the mappings and the totals unchanged.
C6_UnknownIdRaises ==
    [][(pc = "idle" /\ has_attrs /\ last'.op \in LookupOps
            /\ ~HasKey(seq_dict, last'.arg)) =>
          /\ last'.outcome = "KeyError"
          /\ store' = store]_vars

\* get_average_quality was called on a non-empty store with an unknown id
C6_Witness ==
    /\ pc = "idle"
    /\ seq_dict # <<>>
    /\ last.op = "get_average_quality"
    /\ ~HasKey(seq_dict, last.arg)
    /\ last.outcome = "KeyError"

\* C7: decoding a stored quality string of ASCII characters gives one integer
\* per character, in order, each its code point less 33; the character with
\* code point 33 + Q decodes to Q, for every Q in 0..93.
C7_DecodeQuality ==
    /\ (pc = "idle" /\ last.op = "get_quality_scores"
            /\ HasKey(seq_quality_dict, last.arg)
            /\ \A i \in 1..Len(Get(seq_quality_dict, last.arg)) :
                   Get(seq_quality_dict, last.arg)[i] < 128) =>
          LET q == Get(seq_quality_dict, last.arg)
          IN /\ last.outcome = "ok"
             /\ Len(last.value) = Len(q)
             /\ \A i \in 1..Len(q) : last.value[i] + 33 = q[i]
    /\ \A Q \in 0..93 : Decode(<<33 + Q>>) = <<Q>>

\* "I5#" was decoded to 40, 20, 2
C7_Witness ==
    /\ pc = "idle"
    /\ last.op = "get_quality_scores"
    /\ last.outcome = "ok"
    /\ last.value = <<40, 20, 2>>

\* C8: get_average_quality returns the mean of the decoded values rounded to
\* the nearest hundredth, and 0.0 without error for an empty quality string.
C8_AverageQuality ==
    (pc = "idle" /\ last.op = "get_average_quality"
        /\ HasKey(seq_quality_dict, last.arg)
        /\ \A i \in 1..Len(Get(seq_quality_dict, last.arg)) :
               Get(seq_quality_dict, last.arg)[i] < 128) =>
      LET q == Get(seq_quality_dict, last.arg)
          n == Len(q)
          total == SumSeq(q) - 33 * n
          diff == n * last.value - 100 * total
      IN /\ last.outcome = "ok"
         /\ n = 0 => last.value = 0
         /\ n > 0 => (2 * diff <= n /\ -2 * diff <= n)

\* the average of "I5#" (40, 20, 2) was returned as 20.67
C8_Witness ==
    /\ pc = "idle"
    /\ last.op = "get_average_quality"
    /\ last.outcome = "ok"
    /\ Get(seq_quality_dict, last.arg) = <<73, 53, 35>>
    /\ last.value = 2067

\* C9: the length distribution is over the lengths of all stored records, has
\* exactly 30 bins ordered by increasing centre, and its counts add up to
\* total_sequences.
C9_HistogramComplete ==
    (pc = "idle" /\ last.op = "sequence_length_distribution"
        /\ last.outcome = "ok") =>
      /\ last.work = Lengths(seq_dict)
      /\ Len(last.value.counts) = 30
      /\ Len(last.value.bin_centers) = 30
      /\ \A b \in 1..29 : last.value.bin_centers[b] < last.value.bin_centers[b + 1]
      /\ \A b \in 1..30 : last.value.counts[b] >= 0
      /\ SumSeq(last.value.counts) = total_sequences

\* the list a sampled view read from the store
SampledFrom ==
    IF last.op = "per_base_sequence_quality"
    THEN Values(seq_quality_dict)
    ELSE Values(seq_dict)

\* C10: a sampled view works on all stored records when there are at most
\* sample_size of them, and otherwise on exactly sample_size records taken from
\* the store without replacement.
C10_SamplingBoundary ==
    (pc = "idle" /\ ~StoreEmpty
        /\ last.op \in {"per_base_sequence_quality", "per_base_sequence_content"}) =>
      IF Len(SampledFrom) <= last.arg
      THEN last.work = SampledFrom
      ELSE /\ Len(last.work) = last.arg
           /\ \E f \in [1..last.arg -> 1..Len(SampledFrom)] :
                /\ \A i, j \in 1..last.arg : i # j => f[i] # f[j]
                /\ \A i \in 1..last.arg : last.work[i] = SampledFrom[f[i]]

\* the content view sampled two of three stored records
C10_Witness ==
    /\ pc = "idle"
    /\ Len(seq_dict) = 3
    /\ last.op = "per_base_sequence_content"
    /\ last.arg = 2
    /\ Len(last.work) = 2
    /\ last.outcome = "ok"

----------------------------------------------------------------------------
\* the last call was a quality view that returned its summaries
QualityViewDone ==
    pc = "idle" /\ last.op = "per_base_sequence_quality" /\ last.outcome = "ok"

\* C11: in every per-position quality summary q10 <= q25 <= median <= q75 <=
\* q90, each is the linear-interpolation percentile of the values collected at
\* that position, and all lie between the least and the greatest such value.
C11_PercentileOrder ==
    QualityViewDone =>
      \A i \in 1..Len(last.value) :
        LET row == last.value[i]
            values == PosQualities(last.work, row.Position - 1)
        IN /\ row.Q10 <= row.Q25 /\ row.Q25 <= row.Median
           /\ row.Median <= row.Q75 /\ row.Q75 <= row.Q90
           /\ 100 * MinSeq(values) <= row.Q10
           /\ row.Q90 <= 100 * MaxSeq(values)
           /\ row.Q10 = Percentile(values, 10)
           /\ row.Q25 = Percentile(values, 25)
           /\ row.Median = Percentile(values, 50)
           /\ row.Q75 = Percentile(values, 75)
           /\ row.Q90 = Percentile(values, 90)

\* a position where 'I' (40) was collected before '!' (0): the five
\* percentiles 4, 10, 20, 30 and 36 are all different
C11_Witness ==
    /\ QualityViewDone
    /\ Len(last.work) = 2
    /\ last.work[1] = <<73, 53, 35>>
    /\ last.work[2] = <<33, 233>>
    /\ last.value[1] = [Position |-> 1, Median |-> 2000, Q25 |-> 1000,
                        Q75 |-> 3000, Q10 |-> 400, Q90 |-> 3600]

----------------------------------------------------------------------------
\* the last call was a content view that returned its summaries
ContentViewDone ==
    pc = "idle" /\ last.op = "per_base_sequence_content" /\ last.outcome = "ok"

\* every symbol the working list has at the 0-based position pos is A, T, C or G
RecognizedOnly(sequences, pos) ==
    \A i \in 1..Len(sequences) :
        pos < Len(sequences[i]) => sequences[i][pos + 1] \in Bases

\* the four percentages of a row are each between 0 and 100
PercentagesInRange(row) ==
    /\ \A x \in {row.A, row.T, row.C, row.G} : 0 <= x /\ x <= 100 * row.total
    /\ \A base \in Bases :
         /\ BaseCount(last.work, base, row.Position - 1) = 0
              => row.err[base] >= 0
         /\ BaseCount(last.work, base, row.Position - 1) = row.total
              => row.err[base] <= 0

\* the exact ratios of a row sum to 100
RatiosSumTo100(row) == row.A + row.T + row.C + row.G = 100 * row.total

\* the rounding errors of the four doubles of a row, summed: the doubles sum
\* to 100 + RoundingSum(row) * 2^-47 / row.total
RoundingSum(row) ==
    row.err[65] + row.err[84] + row.err[67] + row.err[71]

\* C12 as stated: at a position with no unrecognized symbol the four emitted
\* percentages are each in 0..100 and their sum equals 100.
C12_SumIsExactly100 ==
    ContentViewDone =>
      \A i \in 1..Len(last.value) :
        LET row == last.value[i]
        IN RecognizedOnly(last.work, row.Position - 1) =>
             /\ PercentagesInRange(row)
             /\ RatiosSumTo100(row)
             /\ RoundingSum(row) = 0

\* C12, amended: at a position with no unrecognized symbol the four emitted
\* percentages are each in 0..100, the exact ratios they round sum to 100, and
\* the emitted doubles sum to 100 within a floating-point tolerance of 2^-44.
C12_SumWithinTolerance ==
    ContentViewDone =>
      \A i \in 1..Len(last.value) :
        LET row == last.value[i]
        IN RecognizedOnly(last.work, row.Position - 1) =>
             /\ PercentagesInRange(row)
             /\ RatiosSumTo100(row)
             /\ -8 * row.total <= RoundingSum(row)
             /\ RoundingSum(row) <= 8 * row.total

\* first position holds A, A and C: 66.66666666666666 + 33.33333333333333
C12_Witness ==
    /\ ContentViewDone
    /\ Len(last.value) >= 1
    /\ RecognizedOnly(last.work, 0)
    /\ last.value[1].A = 200
    /\ last.value[1].C = 100
    /\ last.value[1].total = 3
    /\ RoundingSum(last.value[1]) = -6

----------------------------------------------------------------------------
\* the views that sample the store
SampledOps == {"per_base_sequence_quality", "per_base_sequence_content"}

\* C13: two calls of a sampled view on the same store with the same
\* sample_size (the only input the view takes; there is no seed) select the
\* same sample and return identical summaries.
C13_SameCallSameSample ==
    [][(/\ pc = "idle" /\ pc' = "idle"
        /\ last.op \in SampledOps
        /\ last'.op = last.op
        /\ last'.arg = last.arg
        /\ store' = store)
       => (last'.work = last.work /\ last'.value = last.value)]_vars

----------------------------------------------------------------------------
(* The 4-line groups of the lines a read() took.  Group g, counted from 0,  *)
(* starts at line 4 * g + 1; a line the file did not have reads as "".      *)

\* line j (1..4) of group g among the lines c, stripped
GroupLine(c, g, j) ==
    IF 4 * g + j <= Len(c) THEN Strip(c[4 * g + j]) ELSE <<>>

\* the first group whose header position holds an empty line or lies at the
\* end of the file
FirstEmptyHeader(c) ==
    CHOOSE g \in 0..((Len(c) + 3) \div 4) :
        /\ GroupLine(c, g, 1) = <<>>
        /\ \A h \in 0..(g - 1) : GroupLine(c, h, 1) # <<>>

\* the groups before that position whose sequence is valid
ValidBefore(c) ==
    {g \in 0..(FirstEmptyHeader(c) - 1) : validate_sequence(GroupLine(c, g, 2))}

\* the valid groups before that position with the id k
GroupsOf(c, k) == {g \in ValidBefore(c) : SeqId(GroupLine(c, g, 1)) = k}

\* the last of a non-empty set of groups
LastOf(gs) == CHOOSE g \in gs : \A h \in gs : h <= g

\* the number of entries the dict d has under the key k
Entries(d, k) == Cardinality({i \in 1..Len(d) : d[i][1] = k})

\* C14: when two or more valid groups of the input share an id, read() ends
\* without an error and each mapping holds a single entry for that id, with the
\* sequence and the quality string of the last such group.
C14_LastDuplicateWins ==
    (pc = "read_done") =>
      \A k \in QueryIds :
        Cardinality(GroupsOf(consumed, k)) >= 2 =>
          LET g == LastOf(GroupsOf(consumed, k))
          IN /\ Entries(seq_dict, k) = 1
             /\ Entries(seq_quality_dict, k) = 1
             /\ Get(seq_dict, k) = GroupLine(consumed, g, 2)
             /\ Get(seq_quality_dict, k) = GroupLine(consumed, g, 4)
             /\ last = NoCall

\* '@a', 'AN', '+', 'I5#' followed by '@a', 'CCG ', '+', '!e-acute': the store
\* holds 'CCG' and '!e-acute' under 'a'
C14_Witness ==
    /\ pc = "read_done"
    /\ Len(consumed) >= 8
    /\ consumed[1] = <<64, 97>> /\ consumed[5] = <<64, 97>>
    /\ consumed[2] = <<65, 78>> /\ consumed[6] = <<67, 67, 71, 32>>
    /\ consumed[4] = <<73, 53, 35>> /\ consumed[8] = <<33, 233>>
    /\ seq_dict = << <<(<<97>>), <<67, 67, 71>>>> >>
    /\ seq_quality_dict = << <<(<<97>>), <<33, 233>>>> >>

----------------------------------------------------------------------------
\* the outcome of a read() that returned normally
ReadOk == Result("read", 0, "ok", 0, <<>>)

\* the loop of read() has ended at the first empty header position of the
\* lines it took, without an error, and the store holds exactly the valid
\* groups before that position, under their ids
StoppedAtFirstEmptyHeader ==
    /\ last = NoCall
    /\ Len(consumed) <= 4 * FirstEmptyHeader(consumed) + 1
    /\ Keys(seq_dict) = {SeqId(GroupLine(consumed, g, 1)) : g \in ValidBefore(consumed)}
    /\ Keys(seq_quality_dict) = Keys(seq_dict)
    /\ \A k \in Keys(seq_dict) :
         LET g == LastOf(GroupsOf(consumed, k))
         IN /\ Entries(seq_dict, k) = 1
            /\ Entries(seq_quality_dict, k) = 1
            /\ Get(seq_dict, k) = GroupLine(consumed, g, 2)
            /\ Get(seq_quality_dict, k) = GroupLine(consumed, g, 4)

\* C15: read() stops at the first header position whose line is empty (end of
\* file or a blank line) without raising, takes no line after it, and has stored
\* exactly the valid groups before it; and a read() that has begun always
\* returns normally.
C15_StopsAtFirstEmptyHeader ==
    /\ [](pc = "read_done" => StoppedAtFirstEmptyHeader)
    /\ (pc = "reading") ~> (pc = "idle" /\ last = ReadOk)

\* read() stopped at a blank line that follows two stored records, before the
\* end of the file
C15_Witness ==
    /\ pc = "read_done"
    /\ ~eof
    /\ Len(consumed) = 9
    /\ consumed[9] = <<32>>
    /\ Len(seq_dict) = 2

----------------------------------------------------------------------------
\* the selections of stored records that give the working list of the last
\* quality view: distinct records, in the order of the list
SampledRecords ==
    {f \in [1..Len(last.work) -> 1..Len(seq_quality_dict)] :
        /\ \A i, j \in 1..Len(last.work) : i # j => f[i] # f[j]
        /\ \A i \in 1..Len(last.work) : last.work[i] = seq_quality_dict[f[i]][2]}

\* the greatest sequence length among the records f selects
MaxSequenceLength(f) ==
    MaxSeq([i \in 1..Len(last.work) |-> Len(seq_dict[f[i]][2])])

\* C16 as stated: in the quality view max_len is the greatest sequence length
\* among the sampled records, whatever the lengths of their quality strings.
C16_MaxLenIsSequenceLength ==
    QualityViewDone =>
      \E f \in SampledRecords : MaxLen(last.work) = MaxSequenceLength(f)

\* C16, amended: in the quality view max_len is the greatest quality-string
\* length among the sampled records; it is their greatest sequence length
\* when each of them has a quality string as long as its sequence.
C16_MaxLenIsQualityLength ==
    QualityViewDone =>
      LET max_len == MaxLen(last.work)
      IN /\ \A i \in 1..Len(last.work) : Len(last.work[i]) <= max_len
         /\ \E i \in 1..Len(last.work) : Len(last.work[i]) = max_len
         /\ Len(last.value) <= max_len
         /\ \A f \in SampledRecords :
              (\A i \in 1..Len(last.work) :
                   Len(seq_dict[f[i]][2]) = Len(last.work[i]))
                => max_len = MaxSequenceLength(f)

\* the only record has the sequence 'AN' and the quality string 'I5#': three
\* positions are summarised
C16_Witness ==
    /\ QualityViewDone
    /\ Values(seq_dict) = << <<65, 78>> >>
    /\ last.work = << <<73, 53, 35>> >>
    /\ Len(last.value) = 3

----------------------------------------------------------------------------
\* the records of the working list whose quality string has at least p + 1
\* symbols, by their index, in the order of the list
Contributors(p) ==
    SelectSeq([i \in 1..Len(last.work) |-> i],
              LAMBDA i : Len(last.work[i]) >= p + 1)

\* the code point at index p of each of them, less 33
Contributed(p) ==
    [j \in 1..Len(Contributors(p)) |-> last.work[Contributors(p)[j]][p + 1] - 33]

\* C17: the quality view raises nothing on quality strings of different
\* lengths; the summary of the 0-based position p is computed from exactly the
\* values (code point - 33) at index p of the sampled quality strings of length
\* at least p + 1, and the positions summarised are those with such a value.
C17_ContributingValues ==
    QualityViewDone =>
      /\ {last.value[i].Position - 1 : i \in 1..Len(last.value)} =
            {p \in 0..MaxLen(last.work) : Contributors(p) # <<>>}
      /\ \A i \in 1..Len(last.value) :
           LET p == last.value[i].Position - 1
           IN last.value[i] =
                [Position |-> p + 1,
                 Median |-> Percentile(Contributed(p), 50),
                 Q25 |-> Percentile(Contributed(p), 25),
                 Q75 |-> Percentile(Contributed(p), 75),
                 Q10 |-> Percentile(Contributed(p), 10),
                 Q90 |-> Percentile(Contributed(p), 90)]

\* 'I5#', '!e-acute' and '': two values at the second position (20 and 200),
\* one at the third (2)
C17_Witness ==
    /\ QualityViewDone
    /\ last.work = << <<73, 53, 35>>, <<33, 233>>, <<>> >>
    /\ Len(last.value) = 3
    /\ last.value[2].Median = 11000
    /\ last.value[3].Q10 = 200 /\ last.value[3].Q90 = 200

----------------------------------------------------------------------------
\* the number of sampled sequences that hold one of the symbols syms at the
\* 0-based position p
SymbolCount(p, syms) ==
    Cardinality({i \in 1..Len(last.work) :
                    Len(last.work[i]) > p /\ last.work[i][p + 1] \in syms})

\* C18: the content view counts only A, T, C and G: a row's total is the number
\* of those four symbols at its position, each percentage is count / total * 100
\* over that total, and the rows are, in increasing order, exactly the
\* positions up to the longest sampled sequence that hold at least one of the
\* four symbols.
C18_RecognizedSymbolsOnly ==
    ContentViewDone =>
      /\ {last.value[i].Position - 1 : i \in 1..Len(last.value)} =
            {p \in 0..(MaxLen(last.work) - 1) : SymbolCount(p, {65, 84, 67, 71}) > 0}
      /\ \A i, j \in 1..Len(last.value) :
            i < j => last.value[i].Position < last.value[j].Position
      /\ \A i \in 1..Len(last.value) :
           LET row == last.value[i]
               p == row.Position - 1
           IN /\ row.total = SymbolCount(p, {65, 84, 67, 71})
              /\ row.A = 100 * SymbolCount(p, {65})
              /\ row.T = 100 * SymbolCount(p, {84})
              /\ row.C = 100 * SymbolCount(p, {67})
              /\ row.G = 100 * SymbolCount(p, {71})
              /\ \A base \in {65, 84, 67, 71} :
                   row.err[base] =
                     PercentError(SymbolCount(p, {base}), row.total)

\* the long sequence and 'AN': the N of the second position is left out of the
\* total, whose only symbol is the A of the long sequence; position 150 holds
\* only an N and has no row; the last row is that of position 151, beyond the
\* positions the plot shows
C18_Witness ==
    /\ ContentViewDone
    /\ last.work = <<LongSequence, <<65, 78>> >>
    /\ Len(last.value) = DisplayedPositions
    /\ last.value[1].total = 2 /\ last.value[1].A = 200
    /\ last.value[2].total = 1 /\ last.value[2].A = 100
    /\ last.value[DisplayedPositions - 1].Position = DisplayedPositions - 1
    /\ last.value[DisplayedPositions].Position = DisplayedPositions + 1
    /\ last.value[DisplayedPositions].total = 1
    /\ last.value[DisplayedPositions].G = 100

----------------------------------------------------------------------------
\* every operation of the reader other than read()
ReadOnlyOps ==
    LookupOps \cup StatisticsOps \cup {"count_sequences", "get_average_sequence_len"}

\* C19: a call of an accessor or of a statistics view, whether it returns or
\* raises, leaves the sequence mapping, the quality mapping, total_sequences
\* and total_length as they were, and creates none of them.
C19_ReadOnlyCalls ==
    [][(pc = "idle" /\ last'.op \in ReadOnlyOps) =>
          /\ seq_dict' = seq_dict
          /\ seq_quality_dict' = seq_quality_dict
          /\ total_sequences' = total_sequences
          /\ total_length' = total_length
          /\ has_attrs' = has_attrs]_vars

\* the quality view raised (sample_size 0) on a store that holds one record
\* and counts two, after a read() of two groups with the same id
C19_Witness ==
    /\ pc = "idle"
    /\ Len(seq_dict) = 1
    /\ total_sequences = 2
    /\ last.op = "per_base_sequence_quality"
    /\ last.arg = 0
    /\ last.outcome = "ValueError"

----------------------------------------------------------------------------
\* the length of the longest quality string of the working list
LongestQuality ==
    CHOOSE n \in {Len(last.work[i]) : i \in 1..Len(last.work)} :
        \A i \in 1..Len(last.work) : Len(last.work[i]) <= n

\* C20: the quality view emits one summary for each of the positions 1..L, in
\* increasing order and without a gap, L being the length of the longest
\* quality string of the working list.
C20_PositionsWithoutGaps ==
    QualityViewDone =>
      /\ Len(last.value) = LongestQuality
      /\ \A i \in 1..Len(last.value) : last.value[i].Position = i

\* '!e-acute' before 'I5#': the positions 1, 2 and 3 are summarised although the
\* first string has only two symbols
C20_Witness ==
    /\ QualityViewDone
    /\ last.work = << <<33, 233>>, <<73, 53, 35>> >>
    /\ Len(last.value) = 3
    /\ last.value[1].Position = 1
    /\ last.value[2].Position = 2
    /\ last.value[3].Position = 3

----------------------------------------------------------------------------
\* the outcome of a read() whose file could not be opened
ReadFailed == Result("read", 0, "FileNotFoundError", 0, <<>>)

\* the four attributes exist and hold nothing
StoreReset ==
    /\ has_attrs
    /\ seq_dict = <<>> /\ seq_quality_dict = <<>>
    /\ total_sequences = 0 /\ total_length = 0

\* C21: a read() that fails to open its file leaves both mappings empty and
\* both totals 0, whatever the store held before; and on such a store every
\* statistics view fails with the no-data error.
C21_FailedOpenEmptiesStore ==
    /\ [][(pc = "idle" /\ last' = ReadFailed) => StoreReset']_vars
    /\ [][(pc = "idle" /\ StoreReset /\ last'.op \in StatisticsOps) =>
             /\ last'.outcome = "ValueError"
             /\ last'.value = "not loaded"
             /\ StoreReset']_vars

\* the last read() failed to open its file, it found three records in the
\* store, and the store is empty
C21_Witness ==
    /\ pc = "idle"
    /\ last = ReadFailed
    /\ discarded = 3
    /\ StoreReset

\* C22: on a non-empty store, a quality view whose working list holds only
\* empty quality strings returns normally with no summary.  The working list
\* of a view called with sample_size = 0 holds no quality string at all.
C22_EmptyQualityStrings ==
    (/\ pc = "idle" /\ last.op = "per_base_sequence_quality"
     /\ seq_quality_dict # <<>>
     /\ \A i \in 1..Len(last.work) : last.work[i] = <<>>) =>
        /\ last.outcome = "ok"
        /\ last.value = <<>>

----------------------------------------------------------------------------
\* C23: in the GUI, between two handlers, the reader in use is the reader of
\* current_file, holding the records read from it; a load_file that failed has
\* left both as they were.
C23_ReaderHoldsCurrentFile ==
    (gui.stack = <<>> /\ gui.reader) =>
        /\ file_path = gui.current_file
        /\ has_attrs

====
